---- MODULE Spec2Model ----
(***************************************************************************)
(* Model of the mbox-backed IMAP message store of pymail-archive           *)
(* (src/main.py): IndexedMboxMailbox (the Mailbox Store with its Folder    *)
(* Index), MboxUser (the Account Directory) and MboxIMAPFactory (one       *)
(* MboxUser per connection).                                               *)
(*                                                                         *)
(* The standard library's mailbox.mbox object, which the store delegates   *)
(* to, is modelled by what it does: it keeps a table of contents (toc)     *)
(* keyed by the integer keys 0..N-1 assigned when the file was first read, *)
(* remove(key) raises KeyError for a key that is not in the toc, and       *)
(* flush() rewrites the file from the object's own file handle, keeping    *)
(* the surviving keys as they are (it never renumbers them).               *)
(***************************************************************************)
EXTENDS Integers, Sequences, FiniteSets, TLC

\* ------------------------------------------------------------------ bounds

\* Largest number of messages a Message File holds in an initial state.
MaxMsgs == 3
\* Largest number of IndexedMboxMailbox objects constructed in one run.
MaxStores == 3
\* Largest number of connections (one MboxUser each) in one run.
MaxSessions == 2

\* ---------------------------------------------------------------- messages

\* A byte that is not valid UTF-8 on its own.
BadByte == "xFF"
\* What the generator writes for an undecodable byte (U+FFFD).
Replacement == "uFFFD"

\* A parsed message: the subject header (if any), whether the message is
\* multipart, and the bytes of its body.
MsgText == [hasSubject |-> TRUE, subject |-> <<"A", "b">>, multipart |-> FALSE, body |-> <<"c">>]
MsgMultipart == [hasSubject |-> TRUE, subject |-> <<"b">>, multipart |-> TRUE, body |-> <<"c">>]
MsgBadBytes == [hasSubject |-> FALSE, subject |-> <<>>, multipart |-> FALSE, body |-> <<"a", BadByte, "B">>]

MsgPool == {MsgText, MsgMultipart, MsgBadBytes}

\* The search terms the protocol layer passes in.
Queries == {<<>>, <<"a", "B">>, <<"B">>, <<"C">>, <<"d">>}

\* str.lower() on one character.
LowerChar(c) ==
    CASE c = "A" -> "a"
      [] c = "B" -> "b"
      [] c = "C" -> "c"
      [] OTHER -> c

\* str.lower()
Lower(s) == [i \in 1..Len(s) |-> LowerChar(s[i])]

\* The `in` operator on two strings: q is a contiguous part of s.
Contains(s, q) ==
    \E i \in 0..(Len(s) - Len(q)) : SubSeq(s, i + 1, i + Len(q)) = q

\* bytes.decode(errors='ignore'): the undecodable bytes are dropped.
DecodeIgnore(b) == SelectSeq(b, LAMBDA c : c # BadByte)

\* msg.get("subject", "")
GetSubject(msg) == IF msg.hasSubject THEN msg.subject ELSE <<>>

\* msg.as_string().encode("utf-8"): the headers, a blank line and the body,
\* with every undecodable byte written as the replacement character.
AsBytes(msg) ==
    (IF msg.hasSubject THEN <<"Subject: ">> \o msg.subject \o <<"\n">> ELSE <<>>)
    \o <<"\n">>
    \o [i \in 1..Len(msg.body) |-> IF msg.body[i] = BadByte THEN Replacement ELSE msg.body[i]]

\* ------------------------------------------------------------------- names

\* A folder name as the protocol layer passes it: bytes or str.
BaseNames == {"INBOX", "Archive"}
BytesNames == [t : {"bytes"}, v : BaseNames]
StrNames == [t : {"str"}, v : BaseNames]
Names == BytesNames \cup StrNames

\* name.decode("utf-8")
DecodeName(name) == [t |-> "str", v |-> name.v]

\* The key MboxUser.__init__ seeds the directory with.
InboxKey == [t |-> "str", v |-> "INBOX"]

\* os.path.join(MBOX_DIR, f"{folder_name}.mbox"): a str formats as itself,
\* bytes format as their repr.
MboxFile(folder_name) ==
    IF folder_name.t = "str"
    THEN "mailboxes/" \o folder_name.v \o ".mbox"
    ELSE "mailboxes/b'" \o folder_name.v \o "'.mbox"

Files == {MboxFile(n) : n \in Names}

\* ----------------------------------------------------------- mailbox.mbox

RECURSIVE SortedKeys(_)
\* sorted(toc.keys())
SortedKeys(keys) ==
    IF keys = {} THEN <<>>
    ELSE LET k == CHOOSE x \in keys : \A y \in keys : x <= y
         IN <<k>> \o SortedKeys(keys \ {k})

\* The table of contents mailbox.mbox builds when it first reads a file.
GenerateToc(content) == [k \in 0..(Len(content) - 1) |-> content[k + 1]]

\* list(self.mbox): the messages of the toc in key order.
TocValues(toc) ==
    LET ks == SortedKeys(DOMAIN toc)
    IN [i \in 1..Len(ks) |-> toc[ks[i]]]

\* _toc after `del self._toc[key]`.
TocRemove(toc, key) == [k \in (DOMAIN toc) \ {key} |-> toc[k]]

\* ------------------------------------------------------ IndexedMboxMailbox

\* _load_index that renews self.messages and leaves self.index as it was.
LoadIndex_MessagesOnly(store, toc) ==
    [store EXCEPT !.toc = toc, !.messages = TocValues(toc)]

\* The index keyed by enumerate's own positions, without the + 1.
BuildIndex_ZeroBased(messages) == [i \in 0..(Len(messages) - 1) |-> messages[i + 1]]

\* {i + 1: msg for i, msg in enumerate(self.messages)}
BuildIndex(messages) == [i \in 1..Len(messages) |-> messages[i]]

\* _load_index on a store whose mbox object has table of contents toc.
LoadIndex(store, toc) ==
    [store EXCEPT !.toc = toc,
                  !.messages = TocValues(toc),
                  !.index = BuildIndex(TocValues(toc))]

\* IndexedMboxMailbox(folder_name) over the current content of its file.
NewStore(folder_name, content) ==
    LoadIndex([folder_name |-> folder_name,
               mbox_file |-> MboxFile(folder_name),
               toc |-> << >>,
               messages |-> << >>,
               index |-> << >>],
              GenerateToc(content))

\* len(self.messages)
MessageCount(store) == Len(store.messages)

\* getFlags: []
Flags == <<>>

\* getHierarchicalDelimiter: "/"
HierarchicalDelimiter == <<"/">>

\* A recent count that tracks no message.
RecentCount_Zero(store) == 0

\* getRecentCount: len(self.messages)
RecentCount(store) == Len(store.messages)

\* getUnseenCount: 0
UnseenCount == 0

\* isWriteable: True
Writeable == TRUE

\* getUIDValidity: 1
UIDValidity == 1

\* The test one message passes or fails in search: 1 a match, 0 no match,
\* -1 the body test raised (get_payload(decode=True) is None for a
\* multipart message, and None has no decode).
Matches(msg, query) ==
    IF Contains(Lower(GetSubject(msg)), Lower(query)) THEN 1
    ELSE IF msg.multipart THEN -1
    ELSE IF Contains(Lower(DecodeIgnore(msg.body)), Lower(query)) THEN 1
    ELSE 0

RECURSIVE SearchFrom(_, _, _, _)
\* The loop of search from identifier i on, results so far in acc.
SearchFrom(index, query, i, acc) ==
    IF i \notin DOMAIN index THEN [status |-> "ok", ids |-> acc]
    ELSE LET m == Matches(index[i], query)
         IN IF m = -1 THEN [status |-> "AttributeError", ids |-> <<>>]
            ELSE SearchFrom(index, query, i + 1, IF m = 1 THEN Append(acc, i) ELSE acc)

\* search(query)
SearchResult(store, query) == SearchFrom(store.index, query, 1, <<>>)

\* A deleteMessage that never calls flush(): the file keeps every message.
DeleteMessageResult_NoFlush(store, message_id) ==
    IF message_id \in DOMAIN store.index /\ (message_id - 1) \in DOMAIN store.toc
    THEN [status |-> "ok",
          store |-> LoadIndex(store, TocRemove(store.toc, message_id - 1)),
          flushed |-> FALSE, content |-> <<>>]
    ELSE [status |-> "NotFound", store |-> store, flushed |-> FALSE, content |-> <<>>]

\* A deleteMessage that returns success without calling _load_index.
DeleteMessageResult_NoReload(store, message_id) ==
    IF message_id \in DOMAIN store.index /\ (message_id - 1) \in DOMAIN store.toc
    THEN LET toc == TocRemove(store.toc, message_id - 1)
         IN [status |-> "ok", store |-> [store EXCEPT !.toc = toc],
             flushed |-> TRUE, content |-> TocValues(toc)]
    ELSE [status |-> "NotFound", store |-> store, flushed |-> FALSE, content |-> <<>>]

\* deleteMessage(message_id): what it raises or returns, the store after it,
\* and whether flush() rewrote the file (and with what).
DeleteMessageResult(store, message_id) ==
    IF message_id \in DOMAIN store.index
    THEN IF (message_id - 1) \in DOMAIN store.toc
         THEN LET toc == TocRemove(store.toc, message_id - 1)
              IN [status |-> "ok", store |-> LoadIndex(store, toc),
                  flushed |-> TRUE, content |-> TocValues(toc)]
         ELSE [status |-> "KeyError", store |-> store,
               flushed |-> FALSE, content |-> <<>>]
    ELSE [status |-> "NotFound", store |-> store,
          flushed |-> FALSE, content |-> <<>>]

\* A handler that rebuilds the index even though flush() raised.
DeleteMessageWriteError_Reloads(store, message_id) ==
    LoadIndex(store, TocRemove(store.toc, message_id - 1))

\* deleteMessage(message_id) when flush() raises OSError while it writes the
\* new file: `del self.mbox[message_id - 1]` has already taken the key out of
\* the table of contents, flush() removes its temporary file and leaves the
\* Message File as it was, and _load_index is never reached.
DeleteMessageWriteError(store, message_id) ==
    [store EXCEPT !.toc = TocRemove(store.toc, message_id - 1)]

\* fetchMessage taking message_id as a position in self.messages.
FetchMessageResult_ByPosition(store, message_id) ==
    IF 0 <= message_id /\ message_id < Len(store.messages)
    THEN [status |-> "ok", data |-> AsBytes(store.messages[message_id + 1])]
    ELSE [status |-> "NotFound", data |-> <<>>]

\* fetchMessage(message_id)
FetchMessageResult(store, message_id) ==
    IF message_id \in DOMAIN store.index
    THEN [status |-> "ok", data |-> AsBytes(store.index[message_id])]
    ELSE [status |-> "NotFound", data |-> <<>>]

\* ---------------------------------------------------------------- MboxUser

\* A lookup that never finds the folder.
Known_Never(mailboxes, folder_name) == FALSE

\* `folder_name not in self.mailboxes`, negated
Known(mailboxes, folder_name) == folder_name \in DOMAIN mailboxes

\* self.mailboxes[key] = store
Register(mailboxes, key, store) ==
    [k \in (DOMAIN mailboxes) \cup {key} |-> IF k = key THEN store ELSE mailboxes[k]]

\* A delete that leaves the entry in the dictionary.
Unregister_Keep(mailboxes, path) == mailboxes

\* del self.mailboxes[path]
Unregister(mailboxes, path) == [k \in (DOMAIN mailboxes) \ {path} |-> mailboxes[k]]

\* list(self.mailboxes.keys()), as a set
ListMailboxesResult(mailboxes) == DOMAIN mailboxes

\* ------------------------------------------------------------------- state

VARIABLES
    disk,       \* file path -> the messages the file at that path holds
    stores,     \* the IndexedMboxMailbox objects, in order of construction
    accounts,   \* the MboxUser objects: each one's mailboxes dictionary
    call,       \* the last call made and what it returned or raised
    pre         \* disk, stores and accounts as they were before that call

vars == <<disk, stores, accounts, call, pre>>

StoreIds == 1..Len(stores)
AccountIds == 1..Len(accounts)

\* The identifiers the protocol layer passes in: valid, zero, negative and
\* past the end.
MessageIds == (-1)..(MaxMsgs + 1)

NoName == [t |-> "none", v |-> ""]

NoCall ==
    [op |-> "none", acct |-> 0, store |-> 0, name |-> NoName, id |-> 0,
     query |-> <<>>, status |-> "none", data |-> <<>>, ret |-> 0, names |-> {},
     bool |-> FALSE]

Snapshot == [disk |-> disk, stores |-> stores, accounts |-> accounts]

RECURSIVE SeqsUpTo(_, _)
\* The sequences over S of length at most n.
SeqsUpTo(S, n) ==
    IF n = 0 THEN {<<>>}
    ELSE LET shorter == SeqsUpTo(S, n - 1)
         IN shorter \cup {Append(s, x) : s \in {t \in shorter : Len(t) = n - 1}, x \in S}

\* The server starts with whatever the mailboxes directory holds: the INBOX
\* file with one of the given contents, no other file yet.
InitWith(contents) ==
    /\ \E content \in contents :
          disk = [f \in Files |-> IF f = MboxFile(InboxKey) THEN content ELSE <<>>]
    /\ stores = <<>>
    /\ accounts = <<>>
    /\ call = NoCall
    /\ pre = [disk |-> disk, stores |-> <<>>, accounts |-> <<>>]

\* Every INBOX file of up to MaxMsgs messages.
Init == InitWith(SeqsUpTo(MsgPool, MaxMsgs))

\* The message at position i of the sample INBOX file.
SampleMsg(i) ==
    CASE i % 3 = 1 -> MsgText
      [] i % 3 = 2 -> MsgMultipart
      [] OTHER -> MsgBadBytes

\* The sample INBOX files: the first n messages, n up to MaxMsgs.
SampleFiles == {[i \in 1..n |-> SampleMsg(i)] : n \in 0..MaxMsgs}

\* One connection has been made: its MboxUser holds the store it built for
\* INBOX, over one of the sample files.
DirInit ==
    /\ \E content \in SampleFiles :
          /\ disk = [f \in Files |-> IF f = MboxFile(InboxKey) THEN content ELSE <<>>]
          /\ stores = <<NewStore(InboxKey, content)>>
    /\ accounts = <<Register(<< >>, InboxKey, 1)>>
    /\ call = [NoCall EXCEPT !.op = "buildProtocol", !.acct = 1, !.status = "ok"]
    /\ pre = [disk |-> disk, stores |-> <<>>, accounts |-> <<>>]

\* MboxIMAPFactory.buildProtocol: a new MboxUser, whose __init__ builds a
\* store for INBOX.
BuildProtocol ==
    /\ Len(accounts) < MaxSessions
    /\ Len(stores) < MaxStores
    /\ stores' = Append(stores, NewStore(InboxKey, disk[MboxFile(InboxKey)]))
    /\ accounts' = Append(accounts, Register(<< >>, InboxKey, Len(stores) + 1))
    /\ call' = [NoCall EXCEPT !.op = "buildProtocol", !.acct = Len(accounts) + 1,
                              !.status = "ok"]
    /\ pre' = Snapshot
    /\ UNCHANGED disk

\* MboxUser.select(name): name is bytes, since select decodes it.
Select(a, name) ==
    LET folder_name == DecodeName(name)
        known == Known(accounts[a], folder_name)
        mailboxes == IF known THEN accounts[a]
                     ELSE Register(accounts[a], folder_name, Len(stores) + 1)
    IN /\ known \/ Len(stores) < MaxStores
       /\ stores' = IF known THEN stores
                    ELSE Append(stores, NewStore(folder_name, disk[MboxFile(folder_name)]))
       /\ accounts' = [accounts EXCEPT ![a] = mailboxes]
       /\ call' = [NoCall EXCEPT !.op = "select", !.acct = a, !.name = name,
                                 !.status = "ok", !.ret = mailboxes[folder_name]]
       /\ pre' = Snapshot
       /\ UNCHANGED disk

\* MboxUser.create(path): path is used as it comes, bytes or str.
Create(a, path) ==
    /\ Len(stores) < MaxStores
    /\ stores' = Append(stores, NewStore(path, disk[MboxFile(path)]))
    /\ accounts' = [accounts EXCEPT ![a] = Register(accounts[a], path, Len(stores) + 1)]
    /\ call' = [NoCall EXCEPT !.op = "create", !.acct = a, !.name = path,
                              !.status = "ok"]
    /\ pre' = Snapshot
    /\ UNCHANGED disk

\* MboxUser.delete(path): path is used as it comes, bytes or str.
Delete(a, path) ==
    /\ accounts' = IF Known(accounts[a], path)
                   THEN [accounts EXCEPT ![a] = Unregister(accounts[a], path)]
                   ELSE accounts
    /\ call' = [NoCall EXCEPT !.op = "delete", !.acct = a, !.name = path,
                              !.status = IF Known(accounts[a], path) THEN "ok" ELSE "NotFound"]
    /\ pre' = Snapshot
    /\ UNCHANGED <<disk, stores>>

\* MboxUser.listMailboxes(ref, wildcard)
ListMailboxes(a) ==
    /\ call' = [NoCall EXCEPT !.op = "listMailboxes", !.acct = a, !.status = "ok",
                              !.names = ListMailboxesResult(accounts[a])]
    /\ pre' = Snapshot
    /\ UNCHANGED <<disk, stores, accounts>>

\* IndexedMboxMailbox.getMessageCount
GetMessageCount(s) ==
    /\ call' = [NoCall EXCEPT !.op = "getMessageCount", !.store = s, !.status = "ok",
                              !.ret = MessageCount(stores[s])]
    /\ pre' = Snapshot
    /\ UNCHANGED <<disk, stores, accounts>>

\* IndexedMboxMailbox.getFlags
GetFlags(s) ==
    /\ call' = [NoCall EXCEPT !.op = "getFlags", !.store = s, !.status = "ok",
                              !.data = Flags]
    /\ pre' = Snapshot
    /\ UNCHANGED <<disk, stores, accounts>>

\* IndexedMboxMailbox.getHierarchicalDelimiter
GetHierarchicalDelimiter(s) ==
    /\ call' = [NoCall EXCEPT !.op = "getHierarchicalDelimiter", !.store = s,
                              !.status = "ok", !.data = HierarchicalDelimiter]
    /\ pre' = Snapshot
    /\ UNCHANGED <<disk, stores, accounts>>

\* IndexedMboxMailbox.getRecentCount
GetRecentCount(s) ==
    /\ call' = [NoCall EXCEPT !.op = "getRecentCount", !.store = s, !.status = "ok",
                              !.ret = RecentCount(stores[s])]
    /\ pre' = Snapshot
    /\ UNCHANGED <<disk, stores, accounts>>

\* IndexedMboxMailbox.getUnseenCount
GetUnseenCount(s) ==
    /\ call' = [NoCall EXCEPT !.op = "getUnseenCount", !.store = s, !.status = "ok",
                              !.ret = UnseenCount]
    /\ pre' = Snapshot
    /\ UNCHANGED <<disk, stores, accounts>>

\* IndexedMboxMailbox.isWriteable
IsWriteable(s) ==
    /\ call' = [NoCall EXCEPT !.op = "isWriteable", !.store = s, !.status = "ok",
                              !.bool = Writeable]
    /\ pre' = Snapshot
    /\ UNCHANGED <<disk, stores, accounts>>

\* IndexedMboxMailbox.getUIDValidity
GetUIDValidity(s) ==
    /\ call' = [NoCall EXCEPT !.op = "getUIDValidity", !.store = s, !.status = "ok",
                              !.ret = UIDValidity]
    /\ pre' = Snapshot
    /\ UNCHANGED <<disk, stores, accounts>>

\* IndexedMboxMailbox.fetchMessage
FetchMessage(s, message_id) ==
    LET r == FetchMessageResult(stores[s], message_id)
    IN /\ call' = [NoCall EXCEPT !.op = "fetchMessage", !.store = s, !.id = message_id,
                                 !.status = r.status, !.data = r.data]
       /\ pre' = Snapshot
       /\ UNCHANGED <<disk, stores, accounts>>

\* deleteMessage with messages and index kept on the class, so that every
\* store shares the ones the last _load_index built.
DeleteMessage_SharedIndex(s, message_id) ==
    LET r == DeleteMessageResult(stores[s], message_id)
    IN /\ stores' = [t \in DOMAIN stores |->
                        IF t = s THEN r.store
                        ELSE [stores[t] EXCEPT !.messages = r.store.messages,
                                               !.index = r.store.index]]
       /\ disk' = IF r.flushed
                  THEN [disk EXCEPT ![stores[s].mbox_file] = r.content]
                  ELSE disk
       /\ call' = [NoCall EXCEPT !.op = "deleteMessage", !.store = s, !.id = message_id,
                                 !.status = r.status]
       /\ pre' = Snapshot
       /\ UNCHANGED accounts

\* IndexedMboxMailbox.deleteMessage
DeleteMessage(s, message_id) ==
    LET r == DeleteMessageResult(stores[s], message_id)
    IN /\ stores' = [stores EXCEPT ![s] = r.store]
       /\ disk' = IF r.flushed
                  THEN [disk EXCEPT ![stores[s].mbox_file] = r.content]
                  ELSE disk
       /\ call' = [NoCall EXCEPT !.op = "deleteMessage", !.store = s, !.id = message_id,
                                 !.status = r.status]
       /\ pre' = Snapshot
       /\ UNCHANGED accounts

\* IndexedMboxMailbox.deleteMessage on a disk that fails the write: flush()
\* is reached only when message_id is in the index and its key in the table
\* of contents, and the OSError it raises leaves the handler.
DeleteMessageDiskError(s, message_id) ==
    /\ message_id \in DOMAIN stores[s].index
    /\ (message_id - 1) \in DOMAIN stores[s].toc
    /\ stores' = [stores EXCEPT ![s] = DeleteMessageWriteError(stores[s], message_id)]
    /\ call' = [NoCall EXCEPT !.op = "deleteMessage", !.store = s, !.id = message_id,
                              !.status = "OSError"]
    /\ pre' = Snapshot
    /\ UNCHANGED <<disk, accounts>>

\* IndexedMboxMailbox.search
Search(s, query) ==
    LET r == SearchResult(stores[s], query)
    IN /\ call' = [NoCall EXCEPT !.op = "search", !.store = s, !.query = query,
                                 !.status = r.status, !.data = r.ids]
       /\ pre' = Snapshot
       /\ UNCHANGED <<disk, stores, accounts>>

Next ==
    \/ BuildProtocol
    \/ \E a \in AccountIds, name \in BytesNames : Select(a, name)
    \/ \E a \in AccountIds, path \in Names : Create(a, path)
    \/ \E a \in AccountIds, path \in Names : Delete(a, path)
    \/ \E a \in AccountIds : ListMailboxes(a)
    \/ \E s \in StoreIds : GetMessageCount(s)
    \/ \E s \in StoreIds : GetFlags(s)
    \/ \E s \in StoreIds : GetHierarchicalDelimiter(s)
    \/ \E s \in StoreIds : GetRecentCount(s)
    \/ \E s \in StoreIds : GetUnseenCount(s)
    \/ \E s \in StoreIds : IsWriteable(s)
    \/ \E s \in StoreIds : GetUIDValidity(s)
    \/ \E s \in StoreIds, message_id \in MessageIds : FetchMessage(s, message_id)
    \/ \E s \in StoreIds, message_id \in MessageIds : DeleteMessage(s, message_id)
    \/ \E s \in StoreIds, message_id \in MessageIds : DeleteMessageDiskError(s, message_id)
    \/ \E s \in StoreIds, query \in Queries : Search(s, query)

Spec == Init /\ [][Next]_vars


\* One connection has been made: its MboxUser holds the store it built for
\* INBOX, over any file of up to MaxMsgs messages.
OneStoreInit ==
    /\ \E content \in SeqsUpTo(MsgPool, MaxMsgs) :
          /\ disk = [f \in Files |-> IF f = MboxFile(InboxKey) THEN content ELSE <<>>]
          /\ stores = <<NewStore(InboxKey, content)>>
    /\ accounts = <<Register(<< >>, InboxKey, 1)>>
    /\ call = [NoCall EXCEPT !.op = "buildProtocol", !.acct = 1, !.status = "ok"]
    /\ pre = [disk |-> disk, stores |-> <<>>, accounts |-> <<>>]

\* The calls made on a store.
OneStoreNext ==
    \/ \E s \in StoreIds : GetMessageCount(s)
    \/ \E s \in StoreIds, message_id \in MessageIds : FetchMessage(s, message_id)
    \/ \E s \in StoreIds, message_id \in MessageIds : DeleteMessage(s, message_id)
    \/ \E s \in StoreIds, query \in Queries : Search(s, query)

\* One store, alone over its file.
OneStoreSpec == OneStoreInit /\ [][OneStoreNext]_vars

\* Connections come and go, each with its own INBOX store over the one file.
SessionsNext ==
    \/ BuildProtocol
    \/ \E s \in StoreIds : GetMessageCount(s)
    \/ \E s \in StoreIds, message_id \in MessageIds : FetchMessage(s, message_id)
    \/ \E s \in StoreIds, message_id \in MessageIds : DeleteMessage(s, message_id)

SessionsSpec == Init /\ [][SessionsNext]_vars

\* The calls made on the Account Directory of one connection.
DirNext ==
    \/ \E a \in AccountIds, name \in BytesNames : Select(a, name)
    \/ \E a \in AccountIds, path \in Names : Create(a, path)
    \/ \E a \in AccountIds, path \in Names : Delete(a, path)
    \/ \E a \in AccountIds : ListMailboxes(a)

DirSpec == DirInit /\ [][DirNext]_vars

\* The calls made on a store whose disk may fail a write.
DiskNext ==
    \/ \E s \in StoreIds : GetMessageCount(s)
    \/ \E s \in StoreIds, message_id \in MessageIds : FetchMessage(s, message_id)
    \/ \E s \in StoreIds, message_id \in MessageIds : DeleteMessage(s, message_id)
    \/ \E s \in StoreIds, message_id \in MessageIds : DeleteMessageDiskError(s, message_id)

\* One store, alone over its file, on a disk that may fail a write.
DiskSpec == OneStoreInit /\ [][DiskNext]_vars

\* The metadata getters of a store, and the deletes that change it.
MetaNext ==
    \/ \E s \in StoreIds : GetMessageCount(s)
    \/ \E s \in StoreIds : GetFlags(s)
    \/ \E s \in StoreIds : GetHierarchicalDelimiter(s)
    \/ \E s \in StoreIds : GetRecentCount(s)
    \/ \E s \in StoreIds : GetUnseenCount(s)
    \/ \E s \in StoreIds : IsWriteable(s)
    \/ \E s \in StoreIds : GetUIDValidity(s)
    \/ \E s \in StoreIds, message_id \in MessageIds : DeleteMessage(s, message_id)

MetaSpec == OneStoreInit /\ [][MetaNext]_vars

\* One connection has been made over a mailboxes directory that holds an
\* INBOX file and an Archive file, each one of the sample files.
FolderInit ==
    /\ \E inbox \in SampleFiles, archive \in SampleFiles :
          /\ disk = [f \in Files |->
                        IF f = MboxFile(InboxKey) THEN inbox
                        ELSE IF f = MboxFile([t |-> "str", v |-> "Archive"]) THEN archive
                        ELSE <<>>]
          /\ stores = <<NewStore(InboxKey, inbox)>>
    /\ accounts = <<Register(<< >>, InboxKey, 1)>>
    /\ call = [NoCall EXCEPT !.op = "buildProtocol", !.acct = 1, !.status = "ok"]
    /\ pre = [disk |-> disk, stores |-> <<>>, accounts |-> <<>>]

\* The folders of one connection are selected, read and deleted from.
FolderNext ==
    \/ \E a \in AccountIds, name \in BytesNames : Select(a, name)
    \/ \E s \in StoreIds : GetMessageCount(s)
    \/ \E s \in StoreIds : GetFlags(s)
    \/ \E s \in StoreIds : GetHierarchicalDelimiter(s)
    \/ \E s \in StoreIds : GetRecentCount(s)
    \/ \E s \in StoreIds : GetUnseenCount(s)
    \/ \E s \in StoreIds : IsWriteable(s)
    \/ \E s \in StoreIds : GetUIDValidity(s)
    \/ \E s \in StoreIds, message_id \in MessageIds : FetchMessage(s, message_id)
    \/ \E s \in StoreIds, message_id \in MessageIds : DeleteMessage(s, message_id)
    \/ \E s \in StoreIds, query \in Queries : Search(s, query)

FolderSpec == FolderInit /\ [][FolderNext]_vars

\* ------------------------------------------------------------------ claims

\* seq without its k-th element.
RemoveAt(seq, k) == [i \in 1..(Len(seq) - 1) |-> IF i < k THEN seq[i] ELSE seq[i + 1]]

\* The store the last call was made on, before and after the call.
StoreBefore == pre.stores[call.store]
StoreAfter == stores[call.store]

\* The directory the last call was made on, before and after the call.
DirBefore == pre.accounts[call.acct]
DirAfter == accounts[call.acct]

DeleteSucceeded == call.op = "deleteMessage" /\ call.status = "ok"

\* C1: on a store that is the only one over its file, a successful
\* deleteMessage(k) removes exactly the message that had identifier k from
\* the index and from the Message File: smaller identifiers keep their
\* message, larger ones move down by one, the order is kept.
C1_DeleteRemovesMessageK ==
    (DeleteSucceeded /\ Len(stores) = 1) =>
        /\ StoreAfter.index = RemoveAt(StoreBefore.index, call.id)
        /\ disk[StoreAfter.mbox_file] = RemoveAt(pre.disk[StoreAfter.mbox_file], call.id)

\* C2: in every state, every store's index has exactly the identifiers
\* 1..messageCount().
C2_IdentifiersDense ==
    \A s \in StoreIds : DOMAIN stores[s].index = 1..MessageCount(stores[s])

\* A delete has succeeded and left at least two messages in the index.
C2_Witness == DeleteSucceeded /\ MessageCount(StoreAfter) >= 2

\* C3: deleteMessage(id) fails with NotFound exactly when id is not a key of
\* the index, succeeds whenever id is a key, and fails in no other way.
C3_DeleteNotFoundIffAbsent ==
    call.op = "deleteMessage" =>
        IF call.id \in DOMAIN StoreBefore.index
        THEN call.status = "ok"
        ELSE call.status = "NotFound"

\* C4: every store's index lists exactly the messages its Message File
\* holds, in file order.
C4_IndexMatchesFile ==
    \A s \in StoreIds :
        /\ Len(stores[s].index) = Len(disk[stores[s].mbox_file])
        /\ \A i \in DOMAIN stores[s].index : stores[s].index[i] = disk[stores[s].mbox_file][i]

\* C5: fetchMessage(id) returns the bytes of the id-th message of the store
\* when 1 <= id <= messageCount(); for every other id it fails with NotFound,
\* returns nothing and leaves the stores and the files as they were.
C5_FetchOrNotFound ==
    call.op = "fetchMessage" =>
        IF 1 <= call.id /\ call.id <= MessageCount(StoreBefore)
        THEN /\ call.status = "ok"
             /\ call.data = AsBytes(StoreBefore.messages[call.id])
        ELSE /\ call.status = "NotFound"
             /\ call.data = <<>>
             /\ stores = pre.stores
             /\ disk = pre.disk

\* fetchMessage of an identifier past the end of a two-message folder has
\* failed.
C5_Witness ==
    /\ call.op = "fetchMessage"
    /\ call.status = "NotFound"
    /\ MessageCount(StoreBefore) = 2
    /\ call.id > 2

\* C6: search never fails, whatever the query and the index hold.
C6_SearchNeverFails == call.op = "search" => call.status = "ok"

\* Whether the message matches the query by its subject or its decoded body
\* text; a message with no decoded body does not match by its body.
MatchesQuery(msg, query) ==
    \/ Contains(Lower(GetSubject(msg)), Lower(query))
    \/ /\ ~msg.multipart
       /\ Contains(Lower(DecodeIgnore(msg.body)), Lower(query))

\* C7: search(query) returns exactly the identifiers of the matching
\* messages, each once, in ascending order.
C7_SearchReturnsMatches ==
    call.op = "search" =>
        /\ call.status = "ok"
        /\ \A i \in 1..Len(call.data) : \A j \in 1..Len(call.data) :
               i < j => call.data[i] < call.data[j]
        /\ {call.data[i] : i \in 1..Len(call.data)} =
               {id \in DOMAIN StoreBefore.index : MatchesQuery(StoreBefore.index[id], call.query)}

\* C8: select(name) leaves the directory mapping the decoded name to the
\* store it returns; when the name was already known it returns the store
\* the directory held, constructs no store and changes no entry, so a second
\* select(name) returns the store the first one returned.
C8_SelectIdempotent ==
    call.op = "select" =>
        /\ DecodeName(call.name) \in DOMAIN DirAfter
        /\ DirAfter[DecodeName(call.name)] = call.ret
        /\ DecodeName(call.name) \in DOMAIN DirBefore =>
               /\ call.ret = DirBefore[DecodeName(call.name)]
               /\ stores = pre.stores
               /\ accounts = pre.accounts

\* select("Archive") has been called on a directory that knew the folder.
C8_Witness ==
    /\ call.op = "select"
    /\ call.name.v = "Archive"
    /\ DecodeName(call.name) \in DOMAIN DirBefore
    /\ call.ret = DirBefore[DecodeName(call.name)]

\* C9: create(name) of a name the directory already holds leaves the
\* directory mapping the name to the same store and constructs no second
\* store over the folder's file.
C9_CreateExistingIsNoOp ==
    (call.op = "create" /\ call.name \in DOMAIN DirBefore) =>
        /\ DirAfter[call.name] = DirBefore[call.name]
        /\ Len(stores) = Len(pre.stores)

\* C10: delete(name) of an unknown name fails with NotFound and changes
\* nothing; of a known name it succeeds, removes that entry and no other.
\* The names listMailboxes returns are those of the directory, which starts
\* with INBOX, gains the name select or create registers and loses the name
\* delete removes.
C10_DeleteFolderAndListing ==
    /\ call.op = "delete" =>
           IF call.name \in DOMAIN DirBefore
           THEN /\ call.status = "ok"
                /\ DOMAIN DirAfter = (DOMAIN DirBefore) \ {call.name}
                /\ \A k \in DOMAIN DirAfter : DirAfter[k] = DirBefore[k]
           ELSE /\ call.status = "NotFound"
                /\ accounts = pre.accounts
    /\ call.op = "buildProtocol" => DOMAIN DirAfter = {InboxKey}
    /\ call.op = "select" => DOMAIN DirAfter = (DOMAIN DirBefore) \cup {DecodeName(call.name)}
    /\ call.op = "create" => DOMAIN DirAfter = (DOMAIN DirBefore) \cup {call.name}
    /\ call.op = "listMailboxes" =>
           /\ call.names = DOMAIN DirBefore
           /\ accounts = pre.accounts

\* delete of a known folder has succeeded on a directory that held another
\* folder too.
C10_Witness ==
    /\ call.op = "delete"
    /\ call.status = "ok"
    /\ Cardinality(DOMAIN DirBefore) >= 2

\* C11: a deleteMessage whose file write fails does not report success and
\* leaves the index, messageCount() and the Message File exactly as they
\* were; a deleteMessage that reports success has rewritten the file and
\* rebuilt the index from it.
C11_DeleteAllOrNothing ==
    call.op = "deleteMessage" =>
        /\ call.status = "OSError" =>
               /\ StoreAfter.index = StoreBefore.index
               /\ MessageCount(StoreAfter) = MessageCount(StoreBefore)
               /\ disk = pre.disk
        /\ call.status = "ok" =>
               /\ disk[StoreAfter.mbox_file] # pre.disk[StoreAfter.mbox_file]
               /\ StoreAfter.index = BuildIndex(disk[StoreAfter.mbox_file])
               /\ MessageCount(StoreAfter) = Len(disk[StoreAfter.mbox_file])

\* A deleteMessage on a folder of three messages has failed on the write.
C11_Witness ==
    /\ call.op = "deleteMessage"
    /\ call.status = "OSError"
    /\ MessageCount(StoreBefore) = 3

\* A store on which a delete has succeeded before the last call.
DeletedBefore == StoreBefore.toc # << >> /\ 0 \notin DOMAIN StoreBefore.toc

\* C12: whatever deletes and reads came before, a reader finds one whole
\* index: messageCount() is the number of identifiers an exhaustive
\* fetchMessage sweep finds, every identifier maps to the message at its
\* place in the message list, and search returns only identifiers of the
\* index it read.
C12_ReadsSeeWholeIndex ==
    /\ \A s \in StoreIds :
           /\ MessageCount(stores[s]) =
                  Cardinality({id \in MessageIds : FetchMessageResult(stores[s], id).status = "ok"})
           /\ \A id \in DOMAIN stores[s].index :
                  /\ id \in 1..Len(stores[s].messages)
                  /\ stores[s].index[id] = stores[s].messages[id]
    /\ (call.op = "search" /\ call.status = "ok") =>
           \A i \in 1..Len(call.data) : call.data[i] \in DOMAIN StoreBefore.index

\* A search has returned identifiers on a store that a delete had changed.
C12_Witness ==
    /\ call.op = "search"
    /\ call.status = "ok"
    /\ Len(call.data) >= 1
    /\ DeletedBefore

\* C13: messageCount() is the size of the index and never fails, the recent
\* count is the same number, the unseen count is 0, the flags are empty, the
\* store is writeable, and the delimiter and the UID validity are the same
\* constants whatever deletes came before.
C13_Metadata ==
    /\ call.op = "getMessageCount" =>
           call.status = "ok" /\ call.ret = Cardinality(DOMAIN StoreBefore.index)
    /\ call.op = "getRecentCount" =>
           call.status = "ok" /\ call.ret = Cardinality(DOMAIN StoreBefore.index)
    /\ call.op = "getUnseenCount" => call.status = "ok" /\ call.ret = 0
    /\ call.op = "getFlags" => call.status = "ok" /\ call.data = <<>>
    /\ call.op = "isWriteable" => call.status = "ok" /\ call.bool
    /\ call.op = "getHierarchicalDelimiter" => call.status = "ok" /\ call.data = <<"/">>
    /\ call.op = "getUIDValidity" => call.status = "ok" /\ call.ret = 1

\* The recent count of a store that a delete left with two messages has
\* been asked for.
C13_Witness ==
    /\ call.op = "getRecentCount"
    /\ call.ret = 2
    /\ DeletedBefore

\* C14: after a successful deleteMessage, following any earlier ones, the
\* store's message list and index are those of a store constructed afresh
\* over the Message File as it now is.
C14_RebuildEqualsLoad ==
    DeleteSucceeded =>
        LET fresh == NewStore(StoreAfter.folder_name, disk[StoreAfter.mbox_file])
        IN /\ StoreAfter.index = fresh.index
           /\ StoreAfter.messages = fresh.messages

\* A second delete has succeeded on a store and has left messages in it.
C14_Witness ==
    /\ DeleteSucceeded
    /\ DeletedBefore
    /\ MessageCount(StoreAfter) >= 1

\* C15: create, select and delete key the directory identically: the
\* select(name) that follows create(name) returns the store create
\* registered and constructs no other, and the delete(name) that follows
\* select(name) succeeds.
C15_SameKeyForCreateSelectDelete ==
    [][ /\ (/\ call.op = "create"
            /\ call'.op = "select"
            /\ call'.acct = call.acct
            /\ call'.name = call.name) =>
               /\ call'.ret = accounts[call.acct][call.name]
               /\ stores' = stores
        /\ (/\ call.op = "select"
            /\ call'.op = "delete"
            /\ call'.acct = call.acct
            /\ call'.name = call.name) =>
               call'.status = "ok"
      ]_vars

C17_NoPendingRemoval ==
    DeleteSucceeded =>
        /\ Len(disk[StoreAfter.mbox_file]) = Len(pre.disk[StoreAfter.mbox_file]) - 1
        /\ MessageCount(StoreAfter) = MessageCount(StoreBefore) - 1

\* C18: delete(name) changes no file, and the select(name) that follows a
\* successful delete(name) constructs a new store, over the file of the
\* deleted folder, whose message list is what that file held.
C18_DeleteFolderKeepsMessages ==
    [][ /\ call'.op = "delete" => disk' = disk
        /\ (/\ call.op = "delete"
            /\ call.status = "ok"
            /\ call'.op = "select"
            /\ call'.acct = call.acct
            /\ call'.name = call.name) =>
               LET deleted == pre.stores[pre.accounts[call.acct][call.name]]
               IN /\ call'.ret = Len(stores) + 1
                  /\ Len(stores') = Len(stores) + 1
                  /\ stores'[call'.ret].mbox_file = deleted.mbox_file
                  /\ stores'[call'.ret].messages = pre.disk[deleted.mbox_file]
      ]_vars

\* The calls that only read a store.
ReadOps ==
    {"getMessageCount", "fetchMessage", "search", "getFlags",
     "getHierarchicalDelimiter", "getRecentCount", "getUnseenCount",
     "isWriteable", "getUIDValidity"}

\* C19: a read call, whatever it returns or raises, leaves every store,
\* every file and the directory as they were; deleteMessage on one store
\* leaves every other store, every file but its own and the directory as
\* they were.
C19_ReadsAndOtherFoldersUnchanged ==
    /\ call.op \in ReadOps =>
           /\ stores = pre.stores
           /\ disk = pre.disk
           /\ accounts = pre.accounts
    /\ call.op = "deleteMessage" =>
           /\ accounts = pre.accounts
           /\ DOMAIN stores = DOMAIN pre.stores
           /\ \A s \in StoreIds : s # call.store => stores[s] = pre.stores[s]
           /\ \A f \in Files : f # StoreBefore.mbox_file => disk[f] = pre.disk[f]

\* A delete has succeeded on one folder while the store of another folder,
\* over another file, held messages.
C19_Witness ==
    /\ DeleteSucceeded
    /\ \E s \in StoreIds :
           /\ s # call.store
           /\ stores[s].mbox_file # StoreAfter.mbox_file
           /\ MessageCount(stores[s]) >= 1

====
